---------------------------- MODULE Spec2Model ----------------------------
(***************************************************************************)
(* Settlement engine of the Elo chip-based scoring demo                    *)
(* (src/src/index.tsx and src/unnamed/part_001, two builds of one app).    *)
(*                                                                         *)
(* JavaScript numbers are modelled as exact rationals: the weight builder  *)
(* works on reduced fractions <<n, d>> of machine integers, and chip       *)
(* balances on fractions with an arbitrary-precision numerator and a       *)
(* denominator kept as a bag of small factors.  Floating-point rounding    *)
(* (below the 1e-9 tolerances of the self-tests) is not modelled.          *)
(***************************************************************************)
EXTENDS Integers, Sequences, FiniteSets, TLC

(***************************************************************************)
(* Small helpers on integers and sequences                                 *)
(***************************************************************************)
Abs(x) == IF x < 0 THEN -x ELSE x
Min2(a, b) == IF a <= b THEN a ELSE b
Max2(a, b) == IF a >= b THEN a ELSE b

RECURSIVE Gcd(_, _)
Gcd(a, b) == IF b = 0 THEN a ELSE Gcd(b, a % b)

Lcm(a, b) == (a \div Gcd(a, b)) * b

\* Math.ceil(n / 2) for a non-negative integer n
CeilHalf(n) == (n + 1) \div 2

(***************************************************************************)
(* Reduced fractions <<n, d>>, d > 0 (the numbers of the weight builder)   *)
(***************************************************************************)
RNorm(n, d) ==
    LET g == Gcd(Abs(n), d)
    IN  IF n = 0 THEN <<0, 1>> ELSE <<n \div g, d \div g>>

RInt(k) == <<k, 1>>
RZero == <<0, 1>>
ROne == <<1, 1>>
RPct(k) == RNorm(k, 100)                  \* the decimal literal 0.kk

RAdd(a, b) ==
    LET l == Lcm(a[2], b[2])
    IN  RNorm(a[1] * (l \div a[2]) + b[1] * (l \div b[2]), l)

RNeg(a) == <<-a[1], a[2]>>
RSub(a, b) == RAdd(a, RNeg(b))

RMulInt(a, k) ==
    LET g == Gcd(Abs(k), a[2])
    IN  IF k = 0 THEN RZero ELSE RNorm(a[1] * (k \div g), a[2] \div g)

\* a / (kn / kd) for integers kn # 0, kd > 0
RDivFrac(a, kn, kd) ==
    LET s  == IF kn < 0 THEN -1 ELSE 1
        m  == Abs(kn)
        g1 == Gcd(Abs(a[1]), m)
        g2 == Gcd(kd, a[2])
    IN  IF a[1] = 0 THEN RZero
        ELSE RNorm(s * (a[1] \div g1) * (kd \div g2), (a[2] \div g2) * (m \div g1))

RDivInt(a, k) == RDivFrac(a, k, 1)

RLt(a, b) == RSub(a, b)[1] < 0
RLe(a, b) == RSub(a, b)[1] <= 0
RMin(a, b) == IF RLt(b, a) THEN b ELSE a

\* w[i] + ... + w[j], summed by halves to keep the evaluation shallow
RECURSIVE RSumFrom(_, _, _)
RSumFrom(w, i, j) ==
    IF i > j THEN RZero
    ELSE IF i = j THEN w[i]
    ELSE LET mid == (i + j) \div 2
         IN  RAdd(RSumFrom(w, i, mid), RSumFrom(w, mid + 1, j))

\* sum of the weights of ranks lo..hi (1-based), the self-test's rangeSum
rangeSum(w, lo, hi) == RSumFrom(w, lo, Min2(hi, Len(w)))
RSum(w) == RSumFrom(w, 1, Len(w))


(***************************************************************************)
(* Exact chip arithmetic.  A magnitude is a little-endian sequence of      *)
(* limbs below Base without high zero limbs (<<>> is 0); a number is       *)
(* (-1)^neg * mag / (product of den), den a sorted bag of factors >= 2.    *)
(* Factors and integer multipliers stay below 200000, which keeps every    *)
(* limb product inside 32-bit integers.                                    *)
(***************************************************************************)
Base == 100 * 100

RECURSIVE MagOfNat(_)
MagOfNat(k) == IF k = 0 THEN <<>> ELSE <<k % Base>> \o MagOfNat(k \div Base)

Limb(a, i) == IF i <= Len(a) THEN a[i] ELSE 0

RECURSIVE MagTrim(_)
MagTrim(a) ==
    IF a = <<>> THEN a
    ELSE IF a[Len(a)] = 0 THEN MagTrim(SubSeq(a, 1, Len(a) - 1)) ELSE a

RECURSIVE MagAddFrom(_, _, _, _)
MagAddFrom(a, b, i, c) ==
    IF i > Len(a) /\ i > Len(b) THEN (IF c = 0 THEN <<>> ELSE <<c>>)
    ELSE LET t == Limb(a, i) + Limb(b, i) + c
         IN  <<t % Base>> \o MagAddFrom(a, b, i + 1, t \div Base)

MagAdd(a, b) == MagAddFrom(a, b, 1, 0)

\* a - b for a >= b
RECURSIVE MagSubFrom(_, _, _, _)
MagSubFrom(a, b, i, br) ==
    IF i > Len(a) THEN <<>>
    ELSE LET t == a[i] - Limb(b, i) - br
         IN  IF t < 0 THEN <<t + Base>> \o MagSubFrom(a, b, i + 1, 1)
             ELSE <<t>> \o MagSubFrom(a, b, i + 1, 0)

MagSub(a, b) == MagTrim(MagSubFrom(a, b, 1, 0))

RECURSIVE MagCmpFrom(_, _, _)
MagCmpFrom(a, b, i) ==
    IF i = 0 THEN 0
    ELSE IF a[i] > b[i] THEN 1
    ELSE IF a[i] < b[i] THEN -1
    ELSE MagCmpFrom(a, b, i - 1)

MagCmp(a, b) ==
    IF Len(a) > Len(b) THEN 1
    ELSE IF Len(a) < Len(b) THEN -1
    ELSE MagCmpFrom(a, b, Len(a))

RECURSIVE MagMulFrom(_, _, _, _)
MagMulFrom(a, m, i, c) ==
    IF i > Len(a) THEN MagOfNat(c)
    ELSE LET t == a[i] * m + c
         IN  <<t % Base>> \o MagMulFrom(a, m, i + 1, t \div Base)

MagMulS(a, m) == IF m = 0 THEN <<>> ELSE IF m = 1 THEN a ELSE MagMulFrom(a, m, 1, 0)

RECURSIVE MagScale(_, _)
MagScale(a, fs) == IF fs = <<>> THEN a ELSE MagScale(MagMulS(a, Head(fs)), Tail(fs))

\* Bags of factors as sorted sequences
BagIns(d, f) ==
    LET k == Cardinality({i \in 1..Len(d) : d[i] <= f})
    IN  IF f = 1 THEN d ELSE SubSeq(d, 1, k) \o <<f>> \o SubSeq(d, k + 1, Len(d))

RECURSIVE BagUnion(_, _)
BagUnion(a, b) ==
    IF a = <<>> THEN b
    ELSE IF b = <<>> THEN a
    ELSE IF Head(a) = Head(b) THEN <<Head(a)>> \o BagUnion(Tail(a), Tail(b))
    ELSE IF Head(a) < Head(b) THEN <<Head(a)>> \o BagUnion(Tail(a), b)
    ELSE <<Head(b)>> \o BagUnion(a, Tail(b))

\* u minus a, for a bag a contained in u
RECURSIVE BagDiff(_, _)
BagDiff(u, a) ==
    IF a = <<>> THEN u
    ELSE IF Head(u) = Head(a) THEN BagDiff(Tail(u), Tail(a))
    ELSE <<Head(u)>> \o BagDiff(Tail(u), a)

QMk(neg, mag, den) == [neg |-> neg /\ mag # <<>>, mag |-> mag, den |-> den]
QInt(k) == QMk(k < 0, MagOfNat(Abs(k)), <<>>)
QZero == QInt(0)

\* x written over the denominator bag u, which contains x.den
QOnDen(x, u) ==
    IF x.den = u THEN x ELSE QMk(x.neg, MagScale(x.mag, BagDiff(u, x.den)), u)

QAddSame(x, y) ==
    LET c == MagCmp(x.mag, y.mag)
    IN  IF x.neg = y.neg THEN QMk(x.neg, MagAdd(x.mag, y.mag), x.den)
        ELSE IF c = 0 THEN QMk(FALSE, <<>>, x.den)
        ELSE IF c > 0 THEN QMk(x.neg, MagSub(x.mag, y.mag), x.den)
        ELSE QMk(y.neg, MagSub(y.mag, x.mag), x.den)

\* The values a division by zero produces.  NaN and the infinities carry the
\* denominator bag <<0>>, which no finite number has.
QNaN == [neg |-> FALSE, mag |-> <<>>, den |-> <<0>>]
QInf(neg) == [neg |-> neg, mag |-> <<1>>, den |-> <<0>>]
QFinite(x) == x.den # <<0>>

\* x + y where x or y is NaN or infinite (Infinity - Infinity is NaN)
QAddInf(x, y) ==
    IF x = QNaN \/ y = QNaN THEN QNaN
    ELSE IF QFinite(y) THEN x
    ELSE IF QFinite(x) THEN y
    ELSE IF x.neg = y.neg THEN x ELSE QNaN

QAdd(x, y) ==
    IF ~QFinite(x) \/ ~QFinite(y) THEN QAddInf(x, y)
    ELSE IF x.den = y.den THEN QAddSame(x, y)
    ELSE LET u == BagUnion(x.den, y.den)
         IN  QAddSame(QOnDen(x, u), QOnDen(y, u))

QNeg(x) == QMk(~x.neg, x.mag, x.den)
QSub(x, y) == QAdd(x, QNeg(y))
QSign(x) == IF x.mag = <<>> THEN 0 ELSE IF x.neg THEN -1 ELSE 1
QCmp(x, y) == QSign(QSub(x, y))
QEq(x, y) == QCmp(x, y) = 0
QLt(x, y) == QCmp(x, y) < 0
QLe(x, y) == QCmp(x, y) <= 0
QMulInt(x, k) == QMk(x.neg # (k < 0), MagMulS(x.mag, Abs(k)), x.den)

\* x / 0: NaN for 0 / 0, else the infinity of x's sign
QDivZero(x) == IF ~QFinite(x) THEN x ELSE IF QSign(x) = 0 THEN QNaN ELSE QInf(x.neg)

\* x / z for an integer z
QDivInt(x, z) ==
    IF z = 0 \/ ~QFinite(x) THEN QDivZero(x)
    ELSE QMk(x.neg # (z < 0), x.mag, BagIns(x.den, Abs(z)))

\* x * r for a fraction r = <<n, d>>, written over the extra factor D (a multiple of d)
\* (0 * Infinity is NaN)
QMulFrac(x, r, D) ==
    IF QFinite(x)
    THEN QMk(x.neg # (r[1] < 0), MagMulS(x.mag, Abs(r[1]) * (D \div r[2])), BagIns(x.den, D))
    ELSE IF x = QNaN \/ r[1] = 0 THEN QNaN
    ELSE QInf(x.neg # (r[1] < 0))

\* q[i] + ... + q[j], summed by halves
RECURSIVE QSumFrom(_, _, _)
QSumFrom(q, i, j) ==
    IF i > j THEN QZero
    ELSE IF i = j THEN q[i]
    ELSE LET mid == (i + j) \div 2
         IN  QAdd(QSumFrom(q, i, mid), QSumFrom(q, mid + 1, j))

\* reduce((a, b) => a + b, 0)
QSum(q) == QSumFrom(q, 1, Len(q))

\* least common denominator of w[i..j]
RECURSIVE LcdFrom(_, _, _)
LcdFrom(w, i, j) ==
    IF i > j THEN 1
    ELSE IF i = j THEN w[i][2]
    ELSE LET mid == (i + j) \div 2
         IN  Lcm(LcdFrom(w, i, mid), LcdFrom(w, mid + 1, j))

(***************************************************************************)
(* Rank-weight schedule builder                                            *)
(***************************************************************************)
\* Infinity, the cap in force before any rank-2 weight exists
Infinity == <<1, 0>>
IsInf(a) == a[2] = 0

\* A head that ignores the cap
MinCapMut(prevTail, x) == x

\* Math.min(prevTail, x) where prevTail may be Infinity
MinCap(prevTail, x) == IF IsInf(prevTail) THEN x ELSE RMin(prevTail, x)

\* v < -1e-12.  Every fraction of the model has a denominator below 10^12,
\* so a negative one (numerator <= -1) is below -1e-12 and no other is.
BelowNegEps(v) == v[1] < 0

\* safeA / safeB: v < -1e-12 ? 0 : v
safeFloor(v) == IF BelowNegEps(v) THEN RZero ELSE v

\* One iteration of the loop over bands: the weights and prevTail after band b.
bandStep(N, b, st) ==
    LET w        == st.w
        prevTail == st.prevTail
        s  == Max2(1, b.start)
        e  == Min2(b.end, N)
        m0 == e - s + 1
        m  == IF m0 % 2 # 0 THEN m0 - 1 ELSE m0
        p  == m \div 2
        S  == b.total
        unconstrainedHeadPP == RDivInt(S, p + 1)
        headPP   == MinCap(prevTail, unconstrainedHeadPP)
        headPair == RMulInt(headPP, 2)
        denom2   == p * (1 - p)           \* 2 * denom, negative for p >= 2
        B  == RDivFrac(RSub(S, RMulInt(headPair, p)), denom2, 2)
        A  == RSub(headPair, RMulInt(B, p))
        safeA == safeFloor(A)
        safeB == safeFloor(B)
        T(k)  == RAdd(safeA, RMulInt(safeB, k))
        \* pair k (k = 1 at the band's end) holds ranks e-2k+1 and e-2k+2
        pairOf(r) == ((e - r) \div 2) + 1
    IN  IF m0 <= 0 \/ p <= 0 THEN st
        ELSE IF p = 1
        THEN [w |-> [r \in 1..N |-> IF r \in {e - 1, e} THEN RDivInt(S, 2) ELSE w[r]],
              prevTail |-> RDivInt(S, 2)]
        ELSE LET w2 == [r \in 1..N |->
                          IF r >= e - 2 * p + 1 /\ r <= e
                          THEN RDivInt(T(pairOf(r)), 2) ELSE w[r]]
             IN  [w |-> w2, prevTail |-> w2[e]]

RECURSIVE bandLoop(_, _, _, _)
bandLoop(N, bands, i, st) ==
    IF i > Len(bands) THEN st
    ELSE bandLoop(N, bands, i + 1, bandStep(N, bands[i], st))

buildMonotoneByPairs(N, top1, top2, bands) ==
    LET w0 == [r \in 1..N |-> IF r = 1 THEN top1 ELSE IF r = 2 THEN top2 ELSE RZero]
        st0 == [w |-> w0, prevTail |-> IF N >= 2 THEN top2 ELSE Infinity]
    IN  bandLoop(N, bands, 1, st0).w

Band(s, e, pct) == [start |-> s, end |-> e, total |-> RPct(pct)]

CupBands == <<Band(3, 4, 12), Band(5, 8, 16), Band(9, 16, 16), Band(17, 32, 16), Band(33, 64, 16)>>
RegBands == <<Band(3, 4, 16), Band(5, 8, 20), Band(9, 16, 32)>>
WorldBands == <<Band(3, 4, 14), Band(5, 8, 20), Band(9, 16, 24), Band(17, 32, 16)>>
Reg48Bands == <<Band(3, 4, 14), Band(5, 8, 20), Band(9, 16, 25), Band(17, 32, 17)>>
TPCBands == <<Band(3, 4, 16), Band(5, 8, 19), Band(9, 16, 36)>>

\* A Cup schedule whose last band runs on to rank 96
weightsCupMut(N) ==
    buildMonotoneByPairs(N, RPct(15), RPct(9),
        <<Band(3, 4, 12), Band(5, 8, 16), Band(9, 16, 16), Band(17, 32, 16), Band(33, 96, 16)>>)

weightsCup(N) == buildMonotoneByPairs(N, RPct(15), RPct(9), CupBands)
weightsReg(N) == buildMonotoneByPairs(N, RPct(20), RPct(12), RegBands)
weightsWorld(N) == buildMonotoneByPairs(N, RPct(16), RPct(10), WorldBands)
weightsReg48(N) == buildMonotoneByPairs(N, RPct(15), RPct(9), Reg48Bands)
weightsTPC(N) == buildMonotoneByPairs(N, RPct(18), RPct(11), TPCBands)

Schedules == {"Cup", "Reg", "World", "Reg48", "TPC"}

weightsOf(sched, N) ==
    CASE sched = "Cup"   -> weightsCup(N)
      [] sched = "Reg"   -> weightsReg(N)
      [] sched = "World" -> weightsWorld(N)
      [] sched = "Reg48" -> weightsReg48(N)
      [] sched = "TPC"   -> weightsTPC(N)

bandsOf(sched) ==
    CASE sched = "Cup"   -> CupBands
      [] sched = "Reg"   -> RegBands
      [] sched = "World" -> WorldBands
      [] sched = "Reg48" -> Reg48Bands
      [] sched = "TPC"   -> TPCBands

\* The field size each schedule is required for
requiredN(sched) ==
    CASE sched = "Cup"   -> 128
      [] sched = "Reg"   -> 32
      [] sched = "World" -> 48
      [] sched = "Reg48" -> 48
      [] sched = "TPC"   -> 32

\* the self-test's nonIncreasing(w)
nonIncreasing(w) == \A i \in 2..Len(w) : RLe(w[i], w[i - 1])

\* the self-test's pairsEqual(w, lo, hi)
pairsEqual(w, lo, hi) ==
    \A i \in lo..hi : (i - lo) % 2 = 0 /\ i + 1 <= hi /\ i + 1 <= Len(w) => w[i] = w[i + 1]


(***************************************************************************)
(* Performance, ranking and the single-event settlement                    *)
(***************************************************************************)
\* An array given element by element, as the list of its elements
Listed(f) == f \o <<>>

\* F applied to the value of x (x is computed once, then F)
With(x, F(_)) == CHOOSE r \in {F(v) : v \in {x}} : TRUE

\* An optional argument: <<>> when absent (undefined), <<k>> when given
None == <<>>
Some(k) == <<k>>

\* A ranking by ascending value
rankByMut(values) ==
    LET n == Len(values)
        order == SortSeq([j \in 1..n |-> j],
                         LAMBDA a, b : values[a] < values[b]
                                       \/ (values[a] = values[b] /\ a < b))
        ranks == Listed([j \in 1..n |-> CHOOSE k \in 1..n : order[k] = j])
    IN  [order |-> order, ranks |-> ranks]

\* rankBy: order lists the slots by descending value (Array.prototype.sort is
\* stable: equal values keep slot order); ranks[slot] is the slot's place in it.
rankBy(values) ==
    LET n == Len(values)
        order == SortSeq([j \in 1..n |-> j],
                         LAMBDA a, b : values[a] > values[b]
                                       \/ (values[a] = values[b] /\ a < b))
        ranks == Listed([j \in 1..n |-> CHOOSE k \in 1..n : order[k] = j])
    IN  [order |-> order, ranks |-> ranks]

\* A lookup that loses the last weight
weightAtMut(weights, r) == IF r < Len(weights) THEN weights[r] ELSE RZero

\* weights[r - 1] || 0
weightAt(weights, r) == IF r <= Len(weights) THEN weights[r] ELSE RZero

\* A bonus rule whose top half stops one rank early
fixedForMut(r, N, y, giveYToTopHalf, fixedYTopK) ==
    IF giveYToTopHalf /\ fixedYTopK = None
    THEN (IF r < CeilHalf(N) THEN y ELSE 0)
    ELSE IF giveYToTopHalf THEN (IF r <= fixedYTopK[1] THEN y ELSE 0) ELSE y

\* the fixed bonus of rank r among N
fixedFor(r, N, y, giveYToTopHalf, fixedYTopK) ==
    LET topHalf == r <= CeilHalf(N)
        withinTopK == IF fixedYTopK # None THEN r <= fixedYTopK[1] ELSE topHalf
    IN  IF giveYToTopHalf THEN (IF withinTopK THEN y ELSE 0) ELSE y

\* tierRun.  playersIdx is the sequence of roster indexes (slot j = 1..N), players
\* the roster (a function on 0..n-1), noise the normalLike() draw of each slot.
\* The loop over ranks r writes slot findIndex(ranks = r); ranks being a
\* permutation of 1..N, slot j receives the values of rank ranks[j].
\* Returns the result record and the roster after players[pi].chips += deltas[j].
tierRun(playersIdx, players, z, y, weights, giveYToTopHalf, fixedYTopK, noise) ==
    LET N    == Len(playersIdx)
        perf == Listed([j \in 1..N |-> players[playersIdx[j]].skill + noise[j]])
        rk   == rankBy(perf)
        \* chips / z: a division by z = 0 gives an infinity or NaN, and the sums,
        \* products and differences that follow carry it on
        fees == Listed([j \in 1..N |-> QDivInt(players[playersIdx[j]].chips, z)])
        pool == QSum(fees)
        D    == LcdFrom(weights, 1, Min2(N, Len(weights)))
        sharePool == Listed([j \in 1..N |->
                                QMulFrac(pool, weightAt(weights, rk.ranks[j]), D)])
        fixedY    == Listed([j \in 1..N |->
                                QInt(fixedFor(rk.ranks[j], N, y, giveYToTopHalf, fixedYTopK))])
        payouts   == Listed([j \in 1..N |-> QAdd(sharePool[j], fixedY[j])])
        deltas    == Listed([j \in 1..N |-> QSub(payouts[j], fees[j])])
        \* playersIdx.forEach((pi, j) => players[pi].chips += deltas[j]), slots lo..hi
        RECURSIVE applied(_, _, _)
        applied(ps, lo, hi) ==
            IF lo > hi THEN ps
            ELSE IF lo = hi
            THEN [ps EXCEPT ![playersIdx[lo]].chips = QAdd(@, deltas[lo])]
            ELSE With(applied(ps, lo, (lo + hi) \div 2),
                      LAMBDA half : applied(half, (lo + hi) \div 2 + 1, hi))
    IN  [players |-> applied(players, 1, N),
         res |-> [order |-> rk.order, ranks |-> rk.ranks, deltas |-> deltas, pool |-> pool,
                  fees |-> fees, payouts |-> payouts, sharePool |-> sharePool, fixedY |-> fixedY]]


(***************************************************************************)
(* Randomness.  Math.random is a generator with a hidden state: seed is the *)
(* state at the start of a handler step, and the step's k-th batch of      *)
(* draws is a function of it.  Skills and noise are in thousandths, all    *)
(* multiples of 10.                                                        *)
(***************************************************************************)
\* normalLike(): a value in (-1.5, 1.5), the j-th draw of batch k under seed
normalLike(seed, k, j) == (((j * (37 * seed + 11 * k + 3)) % 293) - 146) * 10

\* The multiplier of the permutation a shuffle produces under seed: the least
\* c >= 2 * seed - 1 prime to m
shuffleMul(seed, m) == CHOOSE c \in (2 * seed - 1)..(2 * seed + m) :
                          /\ Gcd(c, m) = 1
                          /\ \A c2 \in (2 * seed - 1)..(c - 1) : Gcd(c2, m) # 1

\* choiceFromList: the Fisher-Yates loop leaves a permutation of the list that
\* the draws determine (here i |-> a * i + b mod m); its first k entries are kept.
choiceFromList(list, k, seed) ==
    LET m == Len(list)
        a == shuffleMul(seed, m)
    IN  [i \in 1..Min2(k, m) |-> list[((a * (i - 1) + seed - 1) % m) + 1]]

\* A draw with replacement: the first half of the shuffle taken twice
choiceIndexesMut(n, k, seed) ==
    [i \in 1..Min2(k, n) |->
        choiceFromList([j \in 1..n |-> j - 1], k, seed)[((i - 1) % CeilHalf(k)) + 1]]

\* choiceIndexes: the same shuffle of 0..n-1
choiceIndexes(n, k, seed) == choiceFromList([i \in 1..n |-> i - 1], k, seed)

\* median of a sequence of integers (skills)
median(arr) ==
    LET a == SortSeq(arr, LAMBDA x, y : x < y)
        m == Len(a) \div 2           \* 0-based index floor(length / 2)
    IN  IF Len(a) % 2 = 1 THEN a[m + 1] ELSE (a[m] + a[m + 1]) \div 2

\* median of a sequence of balances
medianQ(arr) ==
    LET a == SortSeq(arr, LAMBDA x, y : QLt(x, y))
        m == Len(a) \div 2
    IN  IF Len(a) % 2 = 1 THEN a[m + 1] ELSE QDivInt(QAdd(a[m], a[m + 1]), 2)

\* the union of the denominator bags of q[i..j]
RECURSIVE DenUnion(_, _, _)
DenUnion(q, i, j) ==
    IF i = j THEN q[i].den
    ELSE LET mid == (i + j) \div 2
         IN  BagUnion(DenUnion(q, i, mid), DenUnion(q, mid + 1, j))

\* x > y for two numbers over the same denominator
QGtSame(x, y) ==
    IF x.neg # y.neg THEN y.neg
    ELSE IF x.neg THEN MagCmp(x.mag, y.mag) < 0
    ELSE MagCmp(x.mag, y.mag) > 0

\* The indexes in idxs ordered by descending chips, equal balances in list order
\* (sort((a, b) => b.chips - a.chips) is stable).  The balances are first
\* written over one denominator.
byChipsDesc(players, idxs) ==
    LET n == Len(idxs)
        chips == [j \in 1..n |-> players[idxs[j]].chips]
    IN  IF n = 0 THEN <<>>
        ELSE CHOOSE r \in
               { [k \in 1..n |-> idxs[ord[k]]] :
                   ord \in { SortSeq([j \in 1..n |-> j],
                                     LAMBDA a, b : QGtSame(key[a], key[b])
                                                   \/ (key[a] = key[b] /\ a < b)) :
                             key \in { [j \in 1..n |-> QOnDen(chips[j], u)] :
                                       u \in {DenUnion(chips, 1, n)} } } } : TRUE

\* topByChips(k): the k richest of the roster
topByChips(players, k) ==
    LET n == Cardinality(DOMAIN players)
    IN  SubSeq(byChipsDesc(players, [i \in 1..n |-> i - 1]), 1, Min2(k, n))


(***************************************************************************)
(* The demo component: configuration, records and lookups                  *)
(***************************************************************************)
\* FIXED_SIZES (cupSlots is defined with the single-call specification below)
population == 256
reg == 32
world == 48
ourWorldQuota == 12

\* The two builds of the component
Apps == {"index", "part_001"}

\* DEFAULT_PARAMS of each build
DEFAULT_PARAMS(a) ==
    IF a = "index"
    THEN [x0 |-> 100, z_cup |-> 8, y_cup |-> 50, z_reg |-> 4, y_reg |-> 100,
          z_world |-> 3, y_world |-> 400, z_tpc |-> 5, y_tpc |-> 80, decay_pct |-> 10]
    ELSE [x0 |-> 100, z_cup |-> 8, y_cup |-> 50, z_reg |-> 4, y_reg |-> 100,
          z_world |-> 3, y_world |-> 400,
          z_s15_cup |-> 10, y_s15_cup |-> 20, s15_cup_y_top_k |-> 32,
          z_s15_reg |-> 4, y_s15_reg |-> 90, z_s15_tpc |-> 5, y_s15_tpc |-> 75,
          decay_pct |-> 33]

\* Record types that settle an event
SettlementTypes == {"cup", "regional", "worlds", "tpc", "s15_cup", "s15_regional"}

\* The largest element of a non-empty set of integers
MaxOf(S) == CHOOSE k \in S : \A l \in S : l <= k

\* [...history].reverse().find(e => e.type === t): the index of the last record
\* of type t, 0 when there is none
lastOfType(h, t) ==
    LET ks == {k \in 1..Len(h) : h[k].type = t}
    IN  IF ks = {} THEN 0 ELSE MaxOf(ks)

\* find(e => e.type === "regional" && e.idxs?.length === 32)
lastRegional32(h) ==
    LET ks == {k \in 1..Len(h) : h[k].type = "regional" /\ Len(h[k].idxs) = reg}
    IN  IF ks = {} THEN 0 ELSE MaxOf(ks)

\* getProIdxsFromLastRegional32: the field of the last Regional-32, else the
\* current top 32 by chips
getProIdxsFromLastRegional32(h, ps) ==
    IF lastRegional32(h) # 0 THEN h[lastRegional32(h)].idxs ELSE topByChips(ps, reg)

\* getCurrentTPCPros (second build): the 32 best-ranked rows of the last S15
\* Regional, else getProIdxsFromLastRegional32
getCurrentTPCPros(h, ps) ==
    IF lastOfType(h, "s15_regional") # 0
    THEN LET rows == h[lastOfType(h, "s15_regional")].rows
         IN  [k \in 1..Min2(32, Len(rows)) |-> rows[k].playerId]
    ELSE getProIdxsFromLastRegional32(h, ps)

\* The pros of a TPC round and of the S15 Cups in each build
tpcPros(a, h, ps) ==
    IF a = "index" THEN getProIdxsFromLastRegional32(h, ps) ELSE getCurrentTPCPros(h, ps)

\* The same list with the filter left out
nonProIdxsMut(ps, proIdxs) ==
    [i \in 1..Cardinality(DOMAIN ps) |-> i - 1]

\* players.map((_, i) => i).filter(i => !proSet.has(i))
nonProIdxs(ps, proIdxs) ==
    LET n == Cardinality(DOMAIN ps)
        proSet == {proIdxs[k] : k \in 1..Len(proIdxs)}
    IN  SelectSeq([i \in 1..n |-> i - 1], LAMBDA i : i \notin proSet)

\* The detail rows of a record, sorted by rank (name, a label, is left out)
rowsOf(idxs, res, next) ==
    [k \in 1..Len(idxs) |->
        LET j == res.order[k]
        IN  [playerId |-> idxs[j], rank |-> res.ranks[j], fee |-> res.fees[j],
             y |-> res.fixedY[j], share |-> res.sharePool[j], payout |-> res.payouts[j],
             delta |-> res.deltas[j], newChips |-> next[idxs[j]].chips]]

\* The noise draws of a field of n slots
noiseOf(seed, k, n) == [j \in 1..n |-> normalLike(seed, k, j)]

\* Names of the stages `cup${i}`, `tpc${i}`, `s15_cup${i}`
stageName(prefix, i) ==
    CASE prefix = "cup"     -> <<"cup1", "cup2", "cup3">>[i]
      [] prefix = "tpc"     -> <<"tpc1", "tpc2", "tpc3">>[i]
      [] prefix = "s15_cup" -> <<"s15_cup1", "s15_cup2">>[i]

\* decayAll on one balance: Math.max(0, chips * factor), factor = 1 - pct / 100
decayPct(prm) == Max2(0, Min2(100, prm.decay_pct))
decayFactor(prm) == RNorm(100 - decayPct(prm), 100)
\* The balance left as it was
decayedMut(chips, factor) == chips

\* Math.max(0, p.chips * factor)
decayed(chips, factor) ==
    LET c == QMulFrac(chips, factor, factor[2])
    IN  IF QSign(c) < 0 THEN QZero ELSE c

VARIABLES call, ret, app, params, players, stage, history, busy, procs, budget, rng, last

vars == <<call, ret, app, params, players, stage, history, busy, procs, budget, rng, last>>

\* The component's variables, unused while a single function is exercised
appvars == <<app, params, players, stage, history, busy, procs, budget, rng, last>>
NoApp ==
    /\ app = "none" /\ params = <<>> /\ players = <<>> /\ stage = "idle" /\ history = <<>>
    /\ busy = FALSE /\ procs = <<>> /\ budget = 0 /\ rng = 0 /\ last = <<>>


Pending == [done |-> FALSE]

(***************************************************************************)
(* Specification of the schedule builder: one schedule built for one size  *)
(***************************************************************************)
\* Largest field size for which a schedule is built
MaxN == 128

WInit ==
    /\ call \in [fn : {"weights"}, sched : Schedules, N : 0..MaxN]
    /\ ret = Pending
    /\ NoApp

BuildWeights ==
    /\ call.fn = "weights"
    /\ ret = Pending
    /\ ret' = [done |-> TRUE, w |-> weightsOf(call.sched, call.N)]
    /\ UNCHANGED <<call, appvars>>

WNext == BuildWeights

SpecW == WInit /\ [][WNext]_vars

Built(sched, N) == call.fn = "weights" /\ call.sched = sched /\ call.N = N /\ ret.done

\* The schedule built is the one its event requires
Required(sched) == Built(sched, requiredN(sched))

\* C4: each of the five required schedules (Cup 128, Reg 32, World 48, Reg48 48,
\* TPC 32) sums to 1.
C4_RequiredSchedulesSumToOne ==
    \A sched \in Schedules : Required(sched) => RSum(ret.w) = ROne

\* C5: each of the five required schedules is non-increasing by rank: no better
\* rank has a smaller weight than a worse rank.
C5_RequiredSchedulesNonIncreasing ==
    \A sched \in Schedules :
        Required(sched) =>
            \A r \in 1..Len(ret.w) : \A r2 \in (r + 1)..Len(ret.w) : RLe(ret.w[r2], ret.w[r])

\* C6: in each of the five required schedules the weights of every declared band
\* sum to the band's declared total.
C6_BandsSumToDeclaredTotal ==
    \A sched \in Schedules :
        Required(sched) =>
            \A i \in 1..Len(bandsOf(sched)) :
                LET b == bandsOf(sched)[i]
                IN  rangeSum(ret.w, b.start, b.end) = b.total

\* C7: weightsReg(32) has weight 0.20 at rank 1, 0.12 at rank 2, 0.16 over ranks
\* 3-4, 0.20 over ranks 5-8, 0.32 over ranks 9-16, and 1 in total.
C7_Reg32Values ==
    Built("Reg", 32) =>
        /\ ret.w[1] = RPct(20)
        /\ ret.w[2] = RPct(12)
        /\ rangeSum(ret.w, 3, 4) = RPct(16)
        /\ rangeSum(ret.w, 5, 8) = RPct(20)
        /\ rangeSum(ret.w, 9, 16) = RPct(32)
        /\ RSum(ret.w) = ROne

\* C8: weightsCup(128) has weight 0.15 at rank 1, 0.09 at rank 2, 0.12 over ranks
\* 3-4, 0.16 over each of the bands 5-8, 9-16, 17-32 and 33-64, and exactly 0 at
\* every rank 65..128.
C8_Cup128Values ==
    Built("Cup", 128) =>
        /\ ret.w[1] = RPct(15)
        /\ ret.w[2] = RPct(9)
        /\ rangeSum(ret.w, 3, 4) = RPct(12)
        /\ rangeSum(ret.w, 5, 8) = RPct(16)
        /\ rangeSum(ret.w, 9, 16) = RPct(16)
        /\ rangeSum(ret.w, 17, 32) = RPct(16)
        /\ rangeSum(ret.w, 33, 64) = RPct(16)
        /\ \A r \in 65..128 : ret.w[r] = RZero

\* The Cup schedule has been built for 128 ranks and pays down to rank 64
C8_Cup128Built ==
    /\ Built("Cup", 128)
    /\ Len(ret.w) = 128
    /\ RLt(RZero, ret.w[64])

(***************************************************************************)
(* Specification of one tierRun call on a roster of N players, all of them *)
(* participating in roster order (the way the self-test calls it)          *)
(***************************************************************************)
\* Largest of the small field sizes tried (the sizes 8 and 128 are tried too)
MaxTierN == 4

selfTestN == 8
cupSlots == 128

TierSizes == (0..MaxTierN) \cup {selfTestN, cupSlots}

\* createPlayers(n, x0), the skills being the draws of the generator in state seed
createPlayers(n, x0, seed) ==
    [id \in 0..(n - 1) |->
        [id |-> id, skill |-> normalLike(seed, 0, id + 1), chips |-> QInt(x0)]]

\* Balances tried: every player at 100, or player i at 25 * i; the roster holds
\* the n participants and one competitor more, who does not take part
tierRoster(n, kind) ==
    [id \in 0..n |->
        [id |-> id, skill |-> 0, chips |-> IF kind = "flat" THEN QInt(100) ELSE QInt(25 * id)]]

\* Weight vectors tried
tierWeights(kind, N) ==
    CASE kind = "cup"   -> weightsCup(N)
      [] kind = "even"  -> [r \in 1..N |-> RNorm(1, N)]
      [] kind = "top"   -> IF N >= 1 THEN <<ROne>> ELSE <<>>
      [] kind = "halves" -> [r \in 1..N |-> RNorm(1, 2)]
      [] kind = "long"  -> [r \in 1..(N + 1) |-> RNorm(1, N + 1)]

\* Noise draws tried (thousandths): none, or growing with the slot
tierNoise(kind, N) == [j \in 1..N |-> IF kind = "zero" THEN 0 ELSE j]

\* Bonus policies tried: giveYToTopHalf and fixedYTopK
tierPolicy(kind, N) ==
    CASE kind = "all"  -> [half |-> FALSE, topK |-> None]
      [] kind = "half" -> [half |-> TRUE, topK |-> None]
      [] kind = "top1" -> [half |-> TRUE, topK |-> Some(1)]
      [] kind = "topN1" -> [half |-> TRUE, topK |-> Some(N + 1)]
      [] kind = "top32" -> [half |-> TRUE, topK |-> Some(32)]
      [] kind = "allTop1" -> [half |-> FALSE, topK |-> Some(1)]

TInit ==
    /\ call \in [fn : {"tierRun"}, N : TierSizes, chips : {"flat", "ramp"}, z : {1, 3, 10},
                 y : {0, 50}, weights : {"cup", "even", "top", "halves", "long"},
                 policy : {"all", "half", "top1", "topN1", "top32", "allTop1"},
                 noise : {"zero", "slot"}]
    /\ ret = Pending
    /\ NoApp

\* The arguments are bound to values before the call (\E over a singleton), so
\* that each is computed once.
RunTier ==
    /\ call.fn = "tierRun"
    /\ ret = Pending
    /\ \E w \in {tierWeights(call.weights, call.N)} :
       \E ros \in {tierRoster(call.N, call.chips)} :
       \E pol \in {tierPolicy(call.policy, call.N)} :
       \E out \in {tierRun([j \in 1..call.N |-> j - 1], ros, call.z, call.y, w,
                          pol.half, pol.topK, tierNoise(call.noise, call.N))} :
          ret' = [done |-> TRUE, res |-> out.res, players |-> out.players]
    /\ UNCHANGED <<call, appvars>>

TNext == RunTier

SpecTier == TInit /\ [][TNext]_vars

\* The number of ranks the policy gives the bonus to
eligibleCount(pol, N) ==
    IF ~pol.half THEN N
    ELSE IF pol.topK # None THEN Max2(0, Min2(pol.topK[1], N))
    ELSE CeilHalf(N)

\* The call has returned
Ran == call.fn = "tierRun" /\ ret.done

\* C1: for N >= 1 distinct participants, z > 0, any y and any policy, if the weights
\* of ranks 1..N sum to 1 then the shares paid sum to the pool, the pool is the sum
\* of the fees chips / z, and the deltas sum to y times the number of eligible ranks.
C1_TierRunConserves ==
    Ran /\ call.N >= 1 =>
        \A w \in {tierWeights(call.weights, call.N)} :
        \A ros \in {tierRoster(call.N, call.chips)} :
            rangeSum(w, 1, call.N) = ROne =>
                /\ QEq(QSum(ret.res.sharePool), ret.res.pool)
                /\ QEq(QMulInt(ret.res.pool, call.z),
                       QSum([j \in 1..call.N |-> ros[j - 1].chips]))
                /\ QEq(QSum(ret.res.deltas),
                       QInt(call.y * eligibleCount(tierPolicy(call.policy, call.N), call.N)))

\* A Cup-sized call with a positive pool, a bonus for the top half and weights that
\* sum to 1 has returned, and the roster has moved by the deltas
C1_CupSizedCallRan ==
    /\ Ran
    /\ call.N = cupSlots
    /\ call.weights = "cup" /\ call.policy = "half" /\ call.y = 50 /\ call.chips = "ramp"
    /\ rangeSum(tierWeights(call.weights, call.N), 1, call.N) = ROne
    /\ QSign(ret.res.pool) > 0
    /\ \E j \in 1..call.N : QSign(ret.res.deltas[j]) < 0
    /\ QEq(QSum(ret.res.deltas), QInt(50 * 64))

\* C3: run the way the self-test runs it (N players of equal balance, z > 0, the
\* schedule weightsCup(N), the top-half or the all-ranks policy), the deltas sum to
\* y times the eligible-rank count, for every N.
C3_SelfTestStyleRunConserves ==
    Ran /\ call.N >= 1 /\ call.chips = "flat" /\ call.weights = "cup"
        /\ call.policy \in {"all", "half"} =>
        QEq(QSum(ret.res.deltas),
            QInt(call.y * eligibleCount(tierPolicy(call.policy, call.N), call.N)))

\* The number of participants whose fixed bonus is positive
bonusCount == Cardinality({j \in 1..call.N : QSign(ret.res.fixedY[j]) > 0})

\* The count the policy names: ceil(N/2) for top-half, N for all, K for a top-K cutoff
namedCount(pol, N) ==
    IF pol.topK # None THEN pol.topK[1]
    ELSE IF pol.half THEN CeilHalf(N) ELSE N

TZInit ==
    /\ call \in [fn : {"tierRun"}, N : (0..MaxTierN) \cup {selfTestN},
                 chips : {"flat", "ramp"}, z : {-2, -1, 0},
                 y : {0, 50}, weights : {"cup", "even"},
                 policy : {"all", "half"}, noise : {"zero", "slot"}]
    /\ ret = Pending
    /\ NoApp

SpecTierZ == TZInit /\ [][TNext]_vars

\* C13: a tierRun call made with z <= 0 changes no participant's balance (it is
\* refused or does nothing); in particular nothing is computed and applied with z = 0.
C13_NonPositiveDivisorRejected ==
    Ran /\ call.z <= 0 => ret.players = tierRoster(call.N, call.chips)


\* An update that puts the new record in front of the history
commitMut(next, stg, rec) ==
    /\ players' = next
    /\ stage' = stg
    /\ history' = <<rec>> \o history

(***************************************************************************)
(* The handlers of the component.  Each runs in the closure of one render: *)
(* ps, h and prm are the roster, the history and the parameters of that    *)
(* render.  setPlayers(next) replaces the roster by a copy of ps with the  *)
(* deltas applied; setHistory(h => [...h, rec]) appends to the history of  *)
(* the moment.                                                             *)
(***************************************************************************)
commit(next, stg, rec) ==
    /\ players' = next
    /\ stage' = stg
    /\ history' = Append(history, rec)

reset(prm) ==
    /\ players' = createPlayers(population, prm.x0, rng)
    /\ stage' = "idle"
    /\ history' = <<>>

\* setPlayers(prev => ...) decays the roster of the moment
decayAll(prm) ==
    \E factor \in {decayFactor(prm)} :
        /\ players' = [i \in DOMAIN players |->
                          [players[i] EXCEPT !.chips = decayed(players[i].chips, factor)]]
        /\ stage' = "decay"
        /\ history' = Append(history, [type |-> "decay", factor |-> factor,
                                       pct |-> decayPct(prm)])

runCup(ps, prm, cupIndex) ==
    \E idxs \in {choiceIndexes(Cardinality(DOMAIN ps), cupSlots, rng)} :
    \E w \in {weightsCup(cupSlots)} :
    \E noise \in {noiseOf(rng, 1, Len(idxs))} :
    \E out \in {tierRun(idxs, ps, prm.z_cup, prm.y_cup, w, TRUE, None, noise)} :
        commit(out.players, stageName("cup", cupIndex),
               [type |-> "cup", cupIndex |-> cupIndex, idxs |-> idxs,
                rows |-> rowsOf(idxs, out.res, out.players)] @@ out.res)

runTPC(a, ps, h, prm, tpcRound) ==
    \E proIdxs \in {tpcPros(a, h, ps)} :
    \E w \in {weightsTPC(Len(proIdxs))} :
    \E noise \in {noiseOf(rng, 1, Len(proIdxs))} :
    \E out \in {tierRun(proIdxs, ps,
                        IF a = "index" THEN prm.z_tpc ELSE prm.z_s15_tpc,
                        IF a = "index" THEN prm.y_tpc ELSE prm.y_s15_tpc,
                        w, FALSE, None, noise)} :
        commit(out.players, stageName("tpc", tpcRound),
               [type |-> "tpc", tpcRound |-> tpcRound, idxs |-> proIdxs,
                rows |-> rowsOf(proIdxs, out.res, out.players)] @@ out.res)

\* runOne of runS15CupsPhase
runS15Cup(a, ps, h, prm, round) ==
    \E proIdxs \in {tpcPros(a, h, ps)} :
    \E nonPro \in {nonProIdxs(ps, proIdxs)} :
    \E idxs \in {choiceFromList(nonPro, 128, rng)} :
    \E w \in {weightsCup(128)} :
    \E noise \in {noiseOf(rng, 1, Len(idxs))} :
    \E out \in {tierRun(idxs, ps,
                        IF a = "index" THEN prm.z_cup ELSE prm.z_s15_cup,
                        IF a = "index" THEN prm.y_cup ELSE prm.y_s15_cup,
                        w, TRUE,
                        IF a = "index" THEN None ELSE Some(prm.s15_cup_y_top_k),
                        noise)} :
        commit(out.players, stageName("s15_cup", round),
               [type |-> "s15_cup", round |-> round, idxs |-> idxs,
                rows |-> rowsOf(idxs, out.res, out.players),
                note |-> "pros excluded"] @@ out.res)

runRegional(ps, prm) ==
    \E idxs \in {topByChips(ps, reg)} :
    \E w \in {weightsReg(Len(idxs))} :
    \E noise \in {noiseOf(rng, 1, Len(idxs))} :
    \E out \in {tierRun(idxs, ps, prm.z_reg, prm.y_reg, w, FALSE, None, noise)} :
        commit(out.players, "regional",
               [type |-> "regional", idxs |-> idxs,
                rows |-> rowsOf(idxs, out.res, out.players)] @@ out.res)

runS15Regional48(a, ps, h, prm) ==
    \E proIdxs \in {getProIdxsFromLastRegional32(h, ps)} :
    \E nonPro \in {nonProIdxs(ps, proIdxs)} :
    \E nonProTop16 \in {SubSeq(byChipsDesc(ps, nonPro), 1, Min2(16, Len(nonPro)))} :
    \E idxs \in {proIdxs \o nonProTop16} :
    \E w \in {weightsReg48(Len(idxs))} :
    \E noise \in {noiseOf(rng, 1, Len(idxs))} :
    \E out \in {tierRun(idxs, ps,
                        IF a = "index" THEN prm.z_reg ELSE prm.z_s15_reg,
                        IF a = "index" THEN prm.y_reg ELSE prm.y_s15_reg,
                        w, FALSE, None, noise)} :
        commit(out.players, "s15_regional",
               [type |-> "s15_regional", proIdxs |-> proIdxs, cupTop16 |-> nonProTop16,
                idxs |-> idxs, rows |-> rowsOf(idxs, out.res, out.players)] @@ out.res)

\* The slots of a Regional ordered by descending points
\* (wReg[r - 1] || 0) * 100, equal points in slot order
regOrder(regRanks, wReg) ==
    LET n == Len(regRanks)
        regPoints == [j \in 1..n |-> RMulInt(weightAt(wReg, regRanks[j]), 100)]
    IN  SortSeq([j \in 1..n |-> j],
                LAMBDA a, b : RLt(regPoints[b], regPoints[a])
                              \/ (regPoints[a] = regPoints[b] /\ a < b))

\* The field of Worlds: the qualifiers with their roster skill and chips, then
\* the external entrants around the medians
fakePlayersOf(ps, ourLocal, extN, medSkill, medChips) ==
    [k \in 0..(Len(ourLocal) + extN - 1) |->
        IF k < Len(ourLocal)
        THEN [id |-> ourLocal[k + 1], skill |-> ps[ourLocal[k + 1]].skill,
              chips |-> ps[ourLocal[k + 1]].chips]
        ELSE [id |-> -1,
              skill |-> medSkill + (normalLike(rng, 2, k + 1 - Len(ourLocal)) * 8) \div 10,
              chips |-> medChips]]

runWorlds(ps, h, prm) ==
    IF lastOfType(h, "regional") = 0
    THEN UNCHANGED <<players, stage, history>>
    ELSE
    \E lastReg \in {h[lastOfType(h, "regional")]} :
    \E wReg \in {weightsReg(Len(lastReg.idxs))} :
    \E order \in {regOrder(lastReg.ranks, wReg)} :
    \E ourLocal \in {[k \in 1..Min2(ourWorldQuota, Len(order)) |-> lastReg.idxs[order[k]]]} :
    \E extN \in {Max2(0, world - Len(ourLocal))} :
    \E medSkill \in {median([k \in 1..Len(ourLocal) |-> ps[ourLocal[k]].skill])} :
    \E medChips \in {medianQ([k \in 1..Len(ourLocal) |-> ps[ourLocal[k]].chips])} :
    \E fakePlayers \in {fakePlayersOf(ps, ourLocal, extN, medSkill, medChips)} :
    \E N \in {Len(ourLocal) + extN} :
    \E allIdxs \in {[k \in 1..N |-> fakePlayers[k - 1].id]} :
    \E w \in {weightsWorld(N)} :
    \E noise \in {noiseOf(rng, 1, N)} :
    \E out \in {tierRun([k \in 1..N |-> k - 1], fakePlayers, prm.z_world, prm.y_world,
                        w, FALSE, None, noise)} :
    \E next \in {[pi \in DOMAIN ps |->
                    LET ks == {k \in 1..N : allIdxs[k] = pi}
                    IN  IF ks = {} THEN ps[pi]
                        ELSE [ps[pi] EXCEPT !.chips = out.players[MaxOf(ks) - 1].chips]]} :
        commit(next, "worlds",
               [type |-> "worlds", ourLocal |-> ourLocal, allIdxs |-> allIdxs,
                order |-> out.res.order, ranks |-> out.res.ranks,
                deltas |-> out.res.deltas, pool |-> out.res.pool,
                rows |-> [pos \in 1..N |->
                            LET k == out.res.order[pos]
                            IN  [playerId |-> allIdxs[k], rank |-> pos,
                                 fee |-> out.res.fees[k], y |-> out.res.fixedY[k],
                                 share |-> out.res.sharePool[k],
                                 payout |-> out.res.payouts[k],
                                 delta |-> out.res.deltas[k],
                                 newChips |-> out.players[k - 1].chips]]])

(***************************************************************************)
(* Specification of the component: the buttons of Controls and the timers  *)
(* that resume the asynchronous handlers.  A pending handler keeps the     *)
(* roster, history and parameters of the render it was started in.         *)
(***************************************************************************)
\* Number of button clicks explored with every button of Controls
MaxClicks == 2
\* Number of button clicks explored with the buttons of the legacy flow alone
MaxLegacyClicks == 3
\* Number of asynchronous handlers in flight at once
MaxPending == 1
\* Number of initial states of the random generator
NSeeds == 1

\* What the last step did: the handler, for Worlds whether the history of the
\* moment and the history it read held no Regional (and whether the step before
\* was a Worlds without a Regional too), and, when
\* the step ended a phase started by its own button, the phase, the roster of the
\* render the phase ran in and whether no other step came between its rounds
Did(op) == [op |-> op, noRegional |-> FALSE, readNoRegional |-> FALSE, repeat |-> FALSE,
            ended |-> "none", solo |-> FALSE, before |-> <<>>]

\* The component after construction, with n clicks to come
Mounted(n) ==
    /\ call = [fn |-> "app"]
    /\ ret = Pending
    /\ app \in Apps
    /\ params = DEFAULT_PARAMS(app)
    /\ \E seed \in 1..NSeeds :
          /\ players = createPlayers(population, DEFAULT_PARAMS(app).x0, seed)
          /\ rng = seed + 1
    /\ stage = "idle"
    /\ history = <<>>
    /\ busy = FALSE
    /\ procs = <<>>
    /\ budget = n
    /\ last = Did("init")

Init == Mounted(MaxClicks)

\* The pending handlers, each now interleaved with another step
disturbed == [i \in 1..Len(procs) |-> [procs[i] EXCEPT !.solo = FALSE]]

\* A handler started in the current render, with the steps it has left
started(kind, ops) ==
    [kind |-> kind, ops |-> ops, ps |-> players, h |-> history, prm |-> params,
     solo |-> procs = <<>>]

\* A click (budget counts the clicks left) on a button whose handler runs to its
\* end at once
Click(did) ==
    /\ app \in Apps
    /\ budget > 0
    /\ budget' = budget - 1
    /\ procs' = disturbed
    /\ last' = did
    /\ UNCHANGED <<call, ret, app, params, busy>>

\* A click on a button whose handler runs its first step and waits
ClickAsync(did, kind, ops) ==
    /\ app \in Apps
    /\ budget > 0
    /\ Len(procs) < MaxPending
    /\ budget' = budget - 1
    /\ procs' = Append(disturbed, started(kind, ops))
    /\ last' = did
    /\ rng' = rng + 1
    /\ UNCHANGED <<call, ret, app, params>>

\* No record of the history is a Regional
NoRegionalIn(h) == \A k \in 1..Len(h) : h[k].type # "regional"

\* What a Worlds step did, h being the history it read
DidWorlds(h) ==
    [Did("worlds") EXCEPT !.noRegional = NoRegionalIn(history),
                          !.readNoRegional = NoRegionalIn(h),
                          !.repeat = last.op = "worlds" /\ last.noRegional]

\* Math.round of a number given in tenths
jsRound(tenths) == (tenths + 5) \div 10

\* A field handler that stores the rounded input as it is
clampIntMut(v, min, max) == IF v = None THEN 0 ELSE jsRound(v[1])

\* clampInt(v, min, max): Math.max(min, Math.min(max, Math.round(v || 0))), v being
\* parseFloat of the text typed: None for NaN, else Some(tenths)
clampInt(v, min, max) == Max2(min, Min2(max, IF v = None THEN 0 ELSE jsRound(v[1])))

\* The texts typed into a field: empty (NaN), -1.5, 2.5 and 10000
ParamInputs == {None, Some(-15), Some(25), Some(100000)}

\* The number fields of Controls in each build, with the limits of their clampInt
Field(name, min, max) == [name |-> name, min |-> min, max |-> max]
ParamFields(a) ==
    {Field("z_cup", 2, 20), Field("y_cup", 0, 2000), Field("z_reg", 2, 20),
     Field("y_reg", 0, 3000), Field("z_world", 2, 20), Field("y_world", 0, 10000),
     Field("decay_pct", 0, 100)}
    \cup (IF a = "index"
          THEN {Field("z_tpc", 2, 20), Field("y_tpc", 0, 3000)}
          ELSE {Field("z_s15_cup", 2, 20), Field("y_s15_cup", 0, 2000),
                Field("s15_cup_y_top_k", 1, 128), Field("z_s15_reg", 2, 20),
                Field("y_s15_reg", 0, 3000), Field("z_s15_tpc", 2, 20),
                Field("y_s15_tpc", 0, 3000)})

\* An edit of a number field: setParams(p => ({ ...p, [name]: clampInt(v, min, max) }))
SetParam ==
    \E f \in ParamFields(app) : \E v \in ParamInputs :
        /\ app \in Apps
        /\ budget > 0
        /\ budget' = budget - 1
        /\ procs' = disturbed
        /\ last' = Did("setParam")
        /\ params' = [params EXCEPT ![f.name] = clampInt(v, f.min, f.max)]
        /\ UNCHANGED <<call, ret, app, busy, players, stage, history, rng>>

Reset ==
    /\ Click(Did("reset"))
    /\ reset(params)
    /\ rng' = rng + 1

Decay ==
    /\ Click(Did("decay"))
    /\ decayAll(params)
    /\ UNCHANGED rng

RunRegional ==
    /\ Click(Did("regional"))
    /\ runRegional(players, params)
    /\ rng' = rng + 1

RunWorlds ==
    /\ Click(DidWorlds(history))
    /\ runWorlds(players, history, params)
    /\ rng' = IF lastOfType(history, "regional") = 0 THEN rng ELSE rng + 1

RunS15Regional48 ==
    /\ Click(Did("s15_regional"))
    /\ runS15Regional48(app, players, history, params)
    /\ rng' = rng + 1

\* runCupsPhase: runCup(1), then runCup(2) and runCup(3) after the delays
ClickCup ==
    /\ ClickAsync(Did("cup1"), "cups", <<"cup2", "cup3">>)
    /\ runCup(players, params, 1)
    /\ UNCHANGED busy

ClickTPC ==
    /\ ClickAsync(Did("tpc1"), "tpc", <<"tpc2", "tpc3">>)
    /\ runTPC(app, players, history, params, 1)
    /\ UNCHANGED busy

ClickS15Cups ==
    /\ ClickAsync(Did("s15cup1"), "s15cups", <<"s15cup2">>)
    /\ runS15Cup(app, players, history, params, 1)
    /\ UNCHANGED busy

\* A click on Auto Play or S15 Auto while busy returns at once
Refused(op) ==
    /\ busy
    /\ budget > 0
    /\ budget' = budget - 1
    /\ last' = Did(op)
    /\ UNCHANGED <<call, ret, app, params, players, stage, history, busy, procs, rng>>

\* Auto Play (first build): reset(), then the Cup phase, Regionals and Worlds
ClickAutoPlay ==
    /\ app = "index"
    /\ \/ Refused("autoPlay")
       \/ /\ ~busy
          /\ ClickAsync(Did("autoPlay"), "auto",
                        <<"cup1", "cup2", "cup3", "regional", "worlds">>)
          /\ reset(params)
          /\ busy' = TRUE

\* S15 Auto (first build): runTPC(1), then the rest of the TPC phase, the S15 Cups
\* and the S15 Regional
ClickS15Auto ==
    /\ app = "index"
    /\ \/ Refused("s15Auto")
       \/ /\ ~busy
          /\ ClickAsync(Did("tpc1"), "s15auto",
                        <<"tpc2", "tpc3", "s15cup1", "s15cup2", "s15_regional">>)
          /\ runTPC(app, players, history, params, 1)
          /\ busy' = TRUE

\* The phases with a button of their own, and the handlers that end by setBusy(false)
Phases == {"cups", "tpc", "s15cups"}
Autos == {"auto", "s15auto"}

\* The timer of pending handler i fires and the handler runs its next step op
Resume(i, op, did) ==
    /\ procs[i].ops # <<>>
    /\ Head(procs[i].ops) = op
    /\ LET p == procs[i]
           rest == Tail(p.ops)
       IN  /\ procs' = IF rest = <<>>
                       THEN [j \in 1..(Len(procs) - 1) |->
                                disturbed[IF j < i THEN j ELSE j + 1]]
                       ELSE [disturbed EXCEPT ![i] = [p EXCEPT !.ops = rest]]
           /\ busy' = IF rest = <<>> /\ p.kind \in Autos THEN FALSE ELSE busy
           /\ last' = IF rest = <<>> /\ p.kind \in Phases
                      THEN [did EXCEPT !.ended = p.kind, !.solo = p.solo, !.before = p.ps]
                      ELSE did
    /\ UNCHANGED <<call, ret, app, params, budget>>

TimerCup ==
    \E i \in 1..Len(procs) : \E r \in 1..3 :
        /\ Resume(i, stageName("cup", r), Did(stageName("cup", r)))
        /\ runCup(procs[i].ps, procs[i].prm, r)
        /\ rng' = rng + 1

TimerTPC ==
    \E i \in 1..Len(procs) : \E r \in 2..3 :
        /\ Resume(i, stageName("tpc", r), Did(stageName("tpc", r)))
        /\ runTPC(app, procs[i].ps, procs[i].h, procs[i].prm, r)
        /\ rng' = rng + 1

TimerS15Cup ==
    \E i \in 1..Len(procs) : \E r \in 1..2 :
        /\ Resume(i, <<"s15cup1", "s15cup2">>[r], Did(<<"s15cup1", "s15cup2">>[r]))
        /\ runS15Cup(app, procs[i].ps, procs[i].h, procs[i].prm, r)
        /\ rng' = rng + 1

TimerRegional ==
    \E i \in 1..Len(procs) :
        /\ Resume(i, "regional", Did("regional"))
        /\ runRegional(procs[i].ps, procs[i].prm)
        /\ rng' = rng + 1

TimerWorlds ==
    \E i \in 1..Len(procs) :
        /\ Resume(i, "worlds", DidWorlds(procs[i].h))
        /\ runWorlds(procs[i].ps, procs[i].h, procs[i].prm)
        /\ rng' = IF lastOfType(procs[i].h, "regional") = 0 THEN rng ELSE rng + 1

TimerS15Regional48 ==
    \E i \in 1..Len(procs) :
        /\ Resume(i, "s15_regional", Did("s15_regional"))
        /\ runS15Regional48(app, procs[i].ps, procs[i].h, procs[i].prm)
        /\ rng' = rng + 1

Next ==
    \/ SetParam
    \/ Reset
    \/ Decay
    \/ RunRegional
    \/ RunWorlds
    \/ RunS15Regional48
    \/ ClickCup
    \/ ClickTPC
    \/ ClickS15Cups
    \/ ClickAutoPlay
    \/ ClickS15Auto
    \/ TimerCup
    \/ TimerTPC
    \/ TimerS15Cup
    \/ TimerRegional
    \/ TimerWorlds
    \/ TimerS15Regional48

Spec == Init /\ [][Next]_vars

(***************************************************************************)
(* The same component driven through the buttons of the legacy flow only   *)
(* (Reset, Cup, Regionals, Worlds, Decay, Auto Play), one click further    *)
(***************************************************************************)
LegacyInit == Mounted(MaxLegacyClicks)

LegacyNext ==
    \/ Reset
    \/ Decay
    \/ RunRegional
    \/ RunWorlds
    \/ ClickCup
    \/ ClickAutoPlay
    \/ TimerCup
    \/ TimerRegional
    \/ TimerWorlds

SpecLegacy == LegacyInit /\ [][LegacyNext]_vars


(***************************************************************************)
(* Properties of the component                                             *)
(***************************************************************************)
\* The sum of f over the finite set S of slots
RECURSIVE QSumOver(_, _)
QSumOver(f, S) ==
    IF S = {} THEN QZero
    ELSE LET j == CHOOSE k \in S : TRUE
         IN  QAdd(f[j], QSumOver(f, S \ {j}))

\* The fixed bonuses a settlement record paid (a Worlds record keeps them in its rows)
fixedPaid(rec) ==
    IF rec.type = "worlds"
    THEN QSum([k \in 1..Len(rec.rows) |-> rec.rows[k].y])
    ELSE QSum(rec.fixedY)

\* C2: in every settlement record of the history, whatever its event type, the net
\* deltas sum to the fixed bonuses the event paid (fees and pool shares cancel).
C2_EveryRecordCancels ==
    \A k \in 1..Len(history) :
        history[k].type \in SettlementTypes =>
            QEq(QSum(history[k].deltas), fixedPaid(history[k]))

\* The number of rounds of a phase
roundsOf(kind) == IF kind = "s15cups" THEN 2 ELSE 3

\* The net delta a record holds for roster index pi
deltaFor(rec, pi) ==
    QSumOver(rec.deltas, {j \in 1..Len(rec.idxs) : rec.idxs[j] = pi})

\* C9: when a phase (Cup x3, TPC x3, S15 Cups x2) run with no other operation in
\* between ends, every competitor's balance is its balance before the phase plus
\* the deltas recorded for it in the records of the phase's rounds.
C9_PhaseRoundsAccumulate ==
    last.ended \in Phases /\ last.solo =>
        \A first \in {Len(history) - roundsOf(last.ended) + 1} :
        \A pi \in DOMAIN players :
            QEq(players[pi].chips,
                QAdd(last.before[pi].chips,
                     QSum([r \in 1..roundsOf(last.ended) |->
                              deltaFor(history[first + r - 1], pi)])))

\* C10: a Worlds invoked while the history holds no Regional record leaves roster,
\* history and stage unchanged, the first time and every time after.
C10_WorldsWithoutRegionalIsNoOp ==
    [][(last'.op = "worlds" /\ last'.noRegional) => UNCHANGED <<players, history, stage>>]_vars

\* The same for a Worlds whose handler reads a history without a Regional record
WorldsReadingNoRegionalIsNoOp ==
    [][(last'.op = "worlds" /\ last'.readNoRegional)
           => UNCHANGED <<players, history, stage>>]_vars

\* The step appends a settlement record
Settles ==
    /\ Len(history') = Len(history) + 1
    /\ history'[Len(history')].type \in SettlementTypes

\* The real competitors a settlement record names as its participants
participantsOf(rec) ==
    IF rec.type = "worlds" THEN {rec.ourLocal[k] : k \in 1..Len(rec.ourLocal)}
    ELSE {rec.idxs[k] : k \in 1..Len(rec.idxs)}

\* The step leaves the chips of every competitor outside the new record's field,
\* every id and skill, the roster size and the parameters as they were
FrameKept ==
    /\ DOMAIN players' = DOMAIN players
    /\ params' = params
    /\ \A pi \in DOMAIN players :
          /\ players'[pi].id = players[pi].id
          /\ players'[pi].skill = players[pi].skill
          /\ pi \notin participantsOf(history'[Len(history')]) =>
                 players'[pi].chips = players[pi].chips

\* C12: every settlement event (Cup, Regional, TPC, S15 Cup, S15 Regional, Worlds)
\* leaves every non-participant's chips, every id and skill, the roster size and the
\* parameters unchanged.
C12_SettlementKeepsFrame ==
    [][Settles => FrameKept]_vars

\* The same for the events settled in the handler a click runs at once, which reads
\* the roster of the moment
ClickedSettlementKeepsFrame ==
    [][Settles /\ budget' = budget - 1 => FrameKept]_vars

\* C14: in every reachable state every competitor's chip balance is a number >= 0.
C14_BalancesNonNegative ==
    \A pi \in DOMAIN players :
        QFinite(players[pi].chips) /\ QSign(players[pi].chips) >= 0

\* A Cup round has been settled with the fee divisor edited down to 2, and a
\* competitor who paid half its balance and won nothing holds less than x0
C14_CupSettledAtHalfFee ==
    /\ app \in Apps
    /\ params.z_cup = 2
    /\ last.op = "cup1"
    /\ \E pi \in DOMAIN players :
          /\ QSign(players[pi].chips) > 0
          /\ QLt(players[pi].chips, QInt(params.x0))

\* A phase or an auto sequence has run its first step and not yet its last
InProgress == procs # <<>>

\* C15: while a phase or an auto sequence is in progress, a click on any button
\* (another event or phase, Decay, Reset) has no effect on the roster.
C15_NoOperationDuringPhase ==
    [][InProgress /\ budget' = budget - 1 => players' = players]_vars


(***************************************************************************)
(* The same component driven through the Regional, Cup and S15 buttons    *)
(* only (Regionals, S15 Regionals, Cup, TPC x3, S15 Cups x2), one click    *)
(* further                                                                 *)
(***************************************************************************)
MaxS15Clicks == 3

S15Init == Mounted(MaxS15Clicks)

S15Next ==
    \/ RunRegional
    \/ RunS15Regional48
    \/ ClickCup
    \/ ClickTPC
    \/ ClickS15Cups
    \/ TimerCup
    \/ TimerTPC
    \/ TimerS15Cup

SpecS15 == S15Init /\ [][S15Next]_vars

\* The step appends a record of type t
SettlesA(t) ==
    /\ Len(history') = Len(history) + 1
    /\ history'[Len(history')].type = t

\* The pending handlers whose timer fires in the step
resumed ==
    {i \in 1..Len(procs) :
        /\ budget' = budget
        /\ procs[i].ops # <<>>
        /\ procs' = IF Tail(procs[i].ops) = <<>>
                    THEN [j \in 1..(Len(procs) - 1) |->
                             disturbed[IF j < i THEN j ELSE j + 1]]
                    ELSE [disturbed EXCEPT ![i] = [procs[i] EXCEPT
                                                      !.ops = Tail(procs[i].ops)]]}

\* The pro set of the moment: the competitors a TPC round started now would
\* settle, and the S15 Cups started now would exclude
currentPros ==
    UNION { {s[k] : k \in 1..Len(s)} : s \in {tpcPros(app, history, players)} }

\* C16: every S15 Regional-48 field is 48 distinct competitors: the 32 members of
\* the current pro set (the one the TPC rounds play and the S15 Cups exclude) and
\* the 16 richest of the non-pros.
C16_S15RegionalFieldIsProsPlusTop16 ==
    [][SettlesA("s15_regional") =>
          \A rec \in {history'[Len(history')]} : \A pros \in {currentPros} :
          \A field \in {participantsOf(rec)} :
              /\ Len(rec.idxs) = 48
              /\ Cardinality(field) = 48
              /\ Cardinality(pros) = 32
              /\ pros \subseteq field
              /\ \A a \in field \ pros : \A b \in DOMAIN players \ field :
                     QLe(players[b].chips, players[a].chips)]_vars

\* The records that name a pro set: a Regional of 32 and an S15 Regional
qualifying(h) ==
    {k \in 1..Len(h) : \/ h[k].type = "regional" /\ Len(h[k].idxs) = reg
                       \/ h[k].type = "s15_regional"}

\* The pro set the most recent qualifying record names: the field of a Regional
\* of 32, the 32 best-ranked rows of an S15 Regional; without such a record the
\* 32 richest of the roster
prosOfRecord(h, ps) ==
    IF qualifying(h) = {}
    THEN UNION { {s[k] : k \in 1..Len(s)} : s \in {topByChips(ps, reg)} }
    ELSE LET rec == h[MaxOf(qualifying(h))]
         IN  IF rec.type = "regional"
             THEN {rec.idxs[k] : k \in 1..Len(rec.idxs)}
             ELSE {rec.rows[k].playerId : k \in 1..Min2(32, Len(rec.rows))}

\* C17: a TPC round settles exactly 32 distinct competitors, those of the most
\* recent qualifying record of the history (the field of a Regional-32 or the 32
\* best-ranked of an S15 Regional-48, whichever came last), and without such a
\* record the current 32 richest.
C17_TPCFieldFromLastQualifyingRegional ==
    [][SettlesA("tpc") =>
          \A rec \in {history'[Len(history')]} :
              /\ Len(rec.idxs) = 32
              /\ \A pros \in {prosOfRecord(history, players)} :
                     participantsOf(rec) = pros]_vars

\* The pro set when the S15 Cups phase of the round being settled started: the
\* set of the moment at the click, which is the one of the phase's own render
\* at its second round
prosAtPhaseStart ==
    IF budget' # budget THEN currentPros
    ELSE UNION { UNION { {s[k] : k \in 1..Len(s)} :
                         s \in {tpcPros(app, procs[i].h, procs[i].ps)} } :
                 i \in {j \in resumed : procs[j].kind = "s15cups"} }

cupBonus(cupIndex) ==
    IF budget' # budget THEN {params.y_cup}
    ELSE {procs[i].prm.y_cup :
              i \in {j \in resumed : Head(procs[j].ops) = stageName("cup", cupIndex)}}

\* C19: every legacy Cup round settles exactly 128 pairwise-distinct competitors of
\* the population of 256, pays the fixed bonus y_cup to exactly its 64 best-ranked
\* and records deltas that sum to 64 * y_cup.
C19_CupRoundSettles128 ==
    [][SettlesA("cup") =>
          \A rec \in {history'[Len(history')]} : \E y \in cupBonus(rec.cupIndex) :
              /\ Len(rec.idxs) = 128
              /\ Cardinality(participantsOf(rec)) = 128
              /\ Cardinality(DOMAIN players) = population
              /\ participantsOf(rec) \subseteq DOMAIN players
              /\ {rec.ranks[j] : j \in 1..128} = 1..128
              /\ \A j \in 1..128 :
                     QEq(rec.fixedY[j], IF rec.ranks[j] <= 64 THEN QInt(y) ELSE QZero)
              /\ Cardinality({j \in 1..128 : rec.ranks[j] <= 64}) = 64
              /\ QEq(QSum(rec.deltas), QInt(64 * y))]_vars

\* A Cup round has been settled with the default bonus of 50 on 128 distinct
\* competitors, and its deltas sum to 3200
C19_CupSettledWithDefaults ==
    /\ last.op = "cup1"
    /\ params.y_cup = 50
    /\ history # <<>>
    /\ history[Len(history)].type = "cup"
    /\ Cardinality(participantsOf(history[Len(history)])) = 128
    /\ QEq(QSum(history[Len(history)].deltas), QInt(3200))

\* C20: Decay with configured percentage p sets every competitor's balance to
\* max(0, old * (1 - p'/100)), p' being p clamped to 0..100, changes no id and no
\* skill, and appends one record that holds only the type, the factor and the
\* percentage.
C20_DecayShrinksEveryBalance ==
    [][SettlesA("decay") =>
          \A rec \in {history'[Len(history')]} :
          \A pc \in {Max2(0, Min2(100, params.decay_pct))} :
              /\ DOMAIN players' = DOMAIN players
              /\ \A pi \in DOMAIN players :
                    /\ players'[pi].id = players[pi].id
                    /\ players'[pi].skill = players[pi].skill
                    /\ IF QSign(players[pi].chips) < 0
                       THEN QEq(players'[pi].chips, QZero)
                       ELSE QEq(QMulInt(players'[pi].chips, 100),
                                QMulInt(players[pi].chips, 100 - pc))
              /\ SubSeq(history', 1, Len(history)) = history
              /\ DOMAIN rec = {"type", "factor", "pct"}
              /\ rec.pct = pc
              /\ rec.factor[1] * 100 = (100 - pc) * rec.factor[2]]_vars

\* Decay has run after a settlement with the default percentage of the build, and
\* a competitor holds a positive balance other than x0
C20_DecayAfterSettlement ==
    /\ last.op = "decay"
    /\ Len(history) = 2
    /\ history[1].type \in SettlementTypes
    /\ history[2].type = "decay"
    /\ history[2].pct = DEFAULT_PARAMS(app).decay_pct
    /\ \E pi \in DOMAIN players :
          /\ QSign(players[pi].chips) > 0
          /\ ~QEq(players[pi].chips, QInt(params.x0))


(***************************************************************************)
(* Specification of the ranking: one list of performances ranked           *)
(***************************************************************************)
\* Longest list of performances ranked, and the values a performance takes
MaxRankN == 4
RankValues == 0..3

RankInit ==
    /\ call \in { [fn |-> "rankBy", values |-> v] :
                    v \in UNION { [1..n -> RankValues] : n \in 0..MaxRankN } }
    /\ ret = Pending
    /\ NoApp

RunRank ==
    /\ call.fn = "rankBy"
    /\ ret = Pending
    /\ \E r \in {rankBy(call.values)} :
          ret' = [done |-> TRUE, order |-> r.order, ranks |-> r.ranks]
    /\ UNCHANGED <<call, appvars>>

RankNext == RunRank

SpecRank == RankInit /\ [][RankNext]_vars

Ranked == call.fn = "rankBy" /\ ret.done

\* C21: for any list of N performances the ranks are a permutation of 1..N, a
\* strictly higher performance has a strictly better rank, and order is the
\* inverse of ranks (the slot order names k-th has rank k).
C21_RankByIsBijection ==
    Ranked =>
        \A n \in {Len(call.values)} :
            /\ Len(ret.ranks) = n
            /\ Len(ret.order) = n
            /\ {ret.ranks[j] : j \in 1..n} = 1..n
            /\ {ret.order[k] : k \in 1..n} = 1..n
            /\ \A a, b \in 1..n :
                   call.values[a] > call.values[b] => ret.ranks[a] < ret.ranks[b]
            /\ \A k \in 1..n : ret.ranks[ret.order[k]] = k

\* The list [3, 1, 2] of the self-test has been ranked 1st, 3rd, 2nd
C21_SelfTestListRanked ==
    /\ Ranked
    /\ call.values = <<3, 1, 2>>
    /\ ret.ranks = <<1, 3, 2>>


\* C22: for any N >= 0 and a weight vector of any length the call completes with
\* fees, fixed bonuses, shares, payouts and deltas of length N, a rank beyond the
\* weight vector gets pool share 0 (a rank inside it with a positive weight gets a
\* positive share of a positive pool), and for N = 0 the result is empty and no
\* balance changes.
C22_TierRunLengthsAndMissingWeights ==
    Ran =>
        \A w \in {tierWeights(call.weights, call.N)} :
        \A ros \in {tierRoster(call.N, call.chips)} :
            /\ Len(ret.res.fees) = call.N
            /\ Len(ret.res.fixedY) = call.N
            /\ Len(ret.res.sharePool) = call.N
            /\ Len(ret.res.payouts) = call.N
            /\ Len(ret.res.deltas) = call.N
            /\ Len(ret.res.ranks) = call.N
            /\ \A j \in 1..call.N :
                  /\ ret.res.ranks[j] > Len(w) => QEq(ret.res.sharePool[j], QZero)
                  /\ (/\ ret.res.ranks[j] <= Len(w)
                      /\ RLt(RZero, w[ret.res.ranks[j]])
                      /\ QSign(ret.res.pool) > 0) => QSign(ret.res.sharePool[j]) > 0
            /\ ret.players[call.N] = ros[call.N]
            /\ call.N = 0 => /\ ret.res.deltas = <<>>
                             /\ ret.res.fees = <<>>
                             /\ ret.res.payouts = <<>>
                             /\ ret.players = ros

\* A call with four participants and a weight vector of length one has run: the
\* first rank took the whole pool and the three others a share of 0
C22_ShortWeightsCallRan ==
    /\ Ran
    /\ call.N = 4
    /\ call.weights = "top"
    /\ QSign(ret.res.pool) > 0
    /\ Cardinality({j \in 1..4 : QEq(ret.res.sharePool[j], QZero)}) = 3


\* The record type a completed step of each handler appends
recordTypeOf(op) ==
    CASE op \in {"cup1", "cup2", "cup3"} -> "cup"
      [] op \in {"tpc1", "tpc2", "tpc3"} -> "tpc"
      [] op \in {"s15cup1", "s15cup2"}   -> "s15_cup"
      [] op = "regional"                 -> "regional"
      [] op = "s15_regional"             -> "s15_regional"
      [] op = "worlds"                   -> "worlds"
      [] op = "decay"                    -> "decay"
      [] OTHER                           -> "none"

\* C23: the history is append-only between resets: a completed event or decay
\* appends exactly one record at the end (a refused Worlds none), and only Reset
\* (the button, or the one Auto Play starts with) removes or alters a record.
C23_HistoryAppendOnly ==
    [][IF last'.op = "reset" \/ (last'.op = "autoPlay" /\ busy' /\ ~busy)
       THEN history' = <<>>
       ELSE IF /\ recordTypeOf(last'.op) # "none"
               /\ ~(last'.op = "worlds" /\ last'.readNoRegional)
       THEN /\ Len(history') = Len(history) + 1
            /\ SubSeq(history', 1, Len(history)) = history
            /\ history'[Len(history')].type = recordTypeOf(last'.op)
       ELSE history' = history]_vars

\* The second round of a Cup phase has appended its record behind the record of
\* a Decay clicked between the rounds
C23_RoundAppendedAfterDecay ==
    /\ last.op = "cup2"
    /\ Len(history) = 3
    /\ history[1].type = "cup"
    /\ history[2].type = "decay"
    /\ history[3].type = "cup"
    /\ history[3].cupIndex = 2


\* What a Worlds record and the roster after it must show, h and ps being the
\* history and the roster before the step: 48 entrants, 12 distinct qualifiers of
\* the last Regional of h and 36 synthetic ones who entered with the median
\* balance of the 12; the roster changed for the 12 only, each by its delta
WorldsFieldAndFrame(rec, h, ps, after) ==
    \A our \in {participantsOf(rec)} :
        /\ Len(rec.allIdxs) = world
        /\ Len(rec.ourLocal) = ourWorldQuota
        /\ Cardinality(our) = ourWorldQuota
        /\ lastOfType(h, "regional") # 0
        /\ our \subseteq participantsOf(h[lastOfType(h, "regional")])
        /\ \A k \in 1..world :
               rec.allIdxs[k] = (IF k <= ourWorldQuota THEN rec.ourLocal[k] ELSE -1)
        /\ \A med \in {medianQ([k \in 1..ourWorldQuota |-> ps[rec.ourLocal[k]].chips])} :
           \A k \in 1..Len(rec.rows) :
               rec.rows[k].playerId < 0 =>
                   QEq(QSub(rec.rows[k].newChips, rec.rows[k].delta), med)
        /\ Cardinality({k \in 1..Len(rec.rows) : rec.rows[k].playerId < 0})
               = world - ourWorldQuota
        /\ DOMAIN after = DOMAIN ps
        /\ \A pi \in DOMAIN ps \ our : after[pi] = ps[pi]
        /\ \A k \in 1..ourWorldQuota :
               QEq(after[rec.ourLocal[k]].chips,
                   QAdd(ps[rec.ourLocal[k]].chips, rec.deltas[k]))

\* C24: whenever Worlds runs its field is 48 entrants, 12 distinct qualifiers of
\* the most recent Regional and 36 synthetic entrants entering with the median
\* balance of the 12, and after it only the 12 qualifiers' roster balances have
\* changed, each by its recorded delta.
C24_WorldsFieldAndFrame ==
    [][SettlesA("worlds") =>
          WorldsFieldAndFrame(history'[Len(history')], history, players, players')]_vars

\* The same for the Worlds a click on its button runs at once
ClickedWorldsFieldAndFrame ==
    [][SettlesA("worlds") /\ budget' = budget - 1 =>
          WorldsFieldAndFrame(history'[Len(history')], history, players, players')]_vars


\* The step is the last one of an Auto Play
AutoPlayEnds ==
    \E i \in resumed : procs[i].kind = "auto" /\ Tail(procs[i].ops) = <<>>

\* C25: Auto Play, started from any state, ends with a history of exactly three
\* Cup records, one Regional record and one Worlds record, in this order, the
\* first Cup having been settled on balances that were all x0.
C25_AutoPlayLeavesFullSeason ==
    [][AutoPlayEnds =>
          /\ [k \in 1..Len(history') |-> history'[k].type]
                 = <<"cup", "cup", "cup", "regional", "worlds">>
          /\ \A j \in 1..Len(history'[1].fees) :
                 QEq(QMulInt(history'[1].fees[j], params.z_cup), QInt(params.x0))]_vars


\* C26: when a band covers an odd number of ranks inside the field, the band's
\* last rank is the one left out of the pairing: it keeps weight 0, and the ranks
\* from the band's first rank on are paired and weighted.
C26_OddBandDropsLastRank ==
    call.fn = "weights" /\ ret.done =>
        \A i \in 1..Len(bandsOf(call.sched)) :
            \A s \in {Max2(1, bandsOf(call.sched)[i].start)} :
            \A e \in {Min2(bandsOf(call.sched)[i].end, call.N)} :
                (e - s + 1 > 0 /\ (e - s + 1) % 2 = 1) =>
                    /\ ret.w[e] = RZero
                    /\ \A r \in s..(e - 1) : RLt(RZero, ret.w[r])


\* C27: whenever Worlds runs, its 12 qualifiers are exactly the competitors who
\* finished in ranks 1..12 of the most recent Regional.
C27_QualifiersAreRegionalTop12 ==
    [][SettlesA("worlds") /\ lastOfType(history, "regional") # 0 =>
          \A reg32 \in {history[lastOfType(history, "regional")]} :
              participantsOf(history'[Len(history')])
                  = {reg32.idxs[j] : j \in {k \in 1..Len(reg32.idxs) :
                                               reg32.ranks[k] <= ourWorldQuota}}]_vars


(***************************************************************************)
(* Specification of one iteration of the builder's loop: one band          *)
(* processed on a field of N ranks, prevTail being the cap the bands       *)
(* before it left                                                          *)
(***************************************************************************)
\* Largest field and last rank of a band tried
MaxBandN == 10
\* Band totals and caps tried, in hundredths
BandTotals == {12, 24}
BandCaps == {1, 2, 3, 4, 6, 9}

BandInit ==
    /\ call \in [fn : {"band"}, N : 0..MaxBandN, start : {3, 4}, end : 3..MaxBandN,
                 total : BandTotals, prevTail : BandCaps]
    /\ ret = Pending
    /\ NoApp

RunBand ==
    /\ call.fn = "band"
    /\ ret = Pending
    /\ \E st \in {bandStep(call.N, Band(call.start, call.end, call.total),
                           [w |-> [r \in 1..call.N |-> RZero],
                            prevTail |-> RPct(call.prevTail)])} :
          ret' = [done |-> TRUE, w |-> st.w, prevTail |-> st.prevTail]
    /\ UNCHANGED <<call, appvars>>

BandNext == RunBand

SpecBand == BandInit /\ [][BandNext]_vars

\* The number of pairs of the band of the call, and the last rank it pairs
bandPairs == (Min2(call.end, call.N) - Max2(1, call.start) + 1) \div 2
bandLast == Min2(call.end, call.N)

\* The band's paired ranks sum to S, are non-increasing and start at or below
\* prevTail
RampKept ==
    \A first \in {bandLast - 2 * bandPairs + 1} :
        /\ rangeSum(ret.w, first, bandLast) = RPct(call.total)
        /\ \A r \in (first + 1)..bandLast : RLe(ret.w[r], ret.w[r - 1])
        /\ RLe(ret.w[first], RPct(call.prevTail))

RECURSIVE replayed(_, _, _)
replayed(h, k, pi) ==
    IF k = 0 THEN QInt(params.x0)
    ELSE IF h[k].type = "decay" THEN decayed(replayed(h, k - 1, pi), h[k].factor)
    ELSE IF h[k].type = "worlds"
    THEN QAdd(replayed(h, k - 1, pi),
              QSumOver(h[k].deltas, {j \in 1..Len(h[k].ourLocal) : h[k].ourLocal[j] = pi}))
    ELSE QAdd(replayed(h, k - 1, pi), deltaFor(h[k], pi))

\* C29: whenever no phase is in progress, replaying the history since the last
\* Reset from x0 reproduces every balance of the roster.
C29_ReplayReproducesRoster ==
    app \in Apps /\ procs = <<>> =>
        \A pi \in DOMAIN players :
            QEq(players[pi].chips, replayed(history, Len(history), pi))


\* The fee divisors of the two builds' configurations
FeeDivisors == {"z_cup", "z_reg", "z_world", "z_tpc", "z_s15_cup", "z_s15_reg", "z_s15_tpc"}

\* Every fee divisor the configuration prm holds is an integer in 2..20
DivisorsInRange(prm) ==
    \A f \in DOMAIN prm \cap FeeDivisors : prm[f] \in 2..20

\* C30: in every reachable state, after any edits through the controls (empty
\* or non-numeric input included), every fee divisor of the configuration is an
\* integer in 2..20, in the configuration of the moment and in the one every
\* pending handler settles with.
C30_FeeDivisorsInRange ==
    app \in Apps =>
        /\ DOMAIN params \cap FeeDivisors # {}
        /\ DivisorsInRange(params)
        /\ \A i \in 1..Len(procs) : DivisorsInRange(procs[i].prm)

\* Two fields have been edited: z_world to the floor 2 and z_reg to the cap 20
C30_DivisorsEditedToBothEnds ==
    /\ app \in Apps
    /\ last.op = "setParam"
    /\ params.z_world = 2
    /\ params.z_reg = 20

=============================================================================
